---- MODULE Spec2Model ----
(***************************************************************************)
(* TLV subsystem of rusmpp-core: the owned Tlv record (constructors and    *)
(* extraction helpers, tlvs/owned/tlv.rs) and the TlvContainer capability  *)
(* (tlvs/container.rs) as stamped out by impl_tlv_container!               *)
(* (tlvs/container_macro.rs).                                              *)
(*                                                                         *)
(* Representation.  Option<T> is a sequence of length 0 (None) or 1        *)
(* (Some).  Vec<u8> / &[u8] is a sequence of 0..255.  A u16 is an integer; *)
(* a u32 / u64 is a sequence of 2 / 4 sixteen-bit limbs, most significant  *)
(* first (TLC integers are 32 bits wide).  A &str / String is the sequence *)
(* of its Unicode scalar values.                                           *)
(***************************************************************************)
EXTENDS Integers, Sequences, FiniteSets, TLC

VARIABLES tlv, made, out, kind, tlvs, short_message, log

vars == <<tlv, made, out, kind, tlvs, short_message, log>>

(***************************************************************************)
(* Bounds and program constants                                            *)
(***************************************************************************)
MaxPayloadLen == 3

MaxStrLen == 2

MaxOps == 3

MaxTlvs == 4

U16_MAX == 65535

None == <<>>

Some(v) == <<v>>

RECURSIVE SeqsUpTo(_, _)
SeqsUpTo(S, n) ==
    IF n = 0 THEN {<<>>}
    ELSE LET shorter == SeqsUpTo(S, n - 1)
         IN  shorter \cup {Append(s, e) : s \in {t \in shorter : Len(t) = n - 1}, e \in S}

Zeros(n) == [i \in 1..n |-> 0]

(***************************************************************************)
(* Tags and values (TlvTag, TlvValue, AnyOctetString), in the shape the    *)
(* data model gives them: a closed set of known variants plus Other        *)
(***************************************************************************)
TlvTag_MessagePayload == [variant |-> "MessagePayload", code |-> 1060]

TlvTag_Other(n) == [variant |-> "Other", code |-> n]

TlvValue_MessagePayload(bytes) ==
    [variant |-> "MessagePayload", tag |-> TlvTag_MessagePayload, value |-> bytes]

TlvValue_Other(t, bytes) == [variant |-> "Other", tag |-> t, value |-> bytes]

TlvValue_tag(v) == v.tag

AnyOctetString_length(bytes) == Len(bytes)

TlvValue_length(v) == AnyOctetString_length(v.value)

as_u16(n) == n % (U16_MAX + 1)

(***************************************************************************)
(* Tlv constructors                                                        *)
(***************************************************************************)
new(v) ==
    LET t == TlvValue_tag(v)
        value_length == as_u16(TlvValue_length(v))
    IN  [tag |-> t, value_length |-> value_length, value |-> Some(v)]

new_custom(t, bytes) ==
    LET tg == TlvTag_Other(t)
        value_length == as_u16(Len(bytes))
        v == TlvValue_Other(tg, bytes)
    IN  [tag |-> tg, value_length |-> value_length, value |-> Some(v)]

\* least significant byte first
u16_to_le_bytes(x) == <<x % 256, x \div 256>>

u16_to_be_bytes(x) == <<x \div 256, x % 256>>

RECURSIVE to_be_bytes(_)
to_be_bytes(limbs) ==
    IF limbs = <<>> THEN <<>>
    ELSE u16_to_be_bytes(Head(limbs)) \o to_be_bytes(Tail(limbs))

new_custom_u16(t, x) == new_custom(t, u16_to_be_bytes(x))

new_custom_u32(t, x) == new_custom(t, to_be_bytes(x))

new_custom_u64(t, x) == new_custom(t, to_be_bytes(x))

\* str::as_bytes: the UTF-8 encoding of one scalar value, then of a string
char_as_bytes(c) ==
    IF c < 128 THEN <<c>>
    ELSE IF c < 2048 THEN <<192 + (c \div 64), 128 + (c % 64)>>
    ELSE IF c < 65536
         THEN <<224 + (c \div 4096), 128 + ((c \div 64) % 64), 128 + (c % 64)>>
    ELSE <<240 + (c \div 262144), 128 + ((c \div 4096) % 64),
           128 + ((c \div 64) % 64), 128 + (c % 64)>>

RECURSIVE as_bytes(_)
as_bytes(s) ==
    IF s = <<>> THEN <<>> ELSE char_as_bytes(Head(s)) \o as_bytes(Tail(s))

new_custom_string(t, s) ==
    LET bytes == Append(as_bytes(s), 0)
    IN  new_custom(t, bytes)

(***************************************************************************)
(* Tlv extraction helpers                                                  *)
(***************************************************************************)
extract_raw_bytes(self) ==
    IF self.value # None /\ self.value[1].variant = "Other"
    THEN Some(self.value[1].value)
    ELSE None

u16_from_be_bytes(b0, b1) == b0 * 256 + b1

\* decodes the leading two bytes of any payload that has them
extract_u16_prefix(self) ==
    IF self.value # None /\ self.value[1].variant = "Other"
       /\ Len(self.value[1].value) >= 2
    THEN Some(u16_from_be_bytes(self.value[1].value[1], self.value[1].value[2]))
    ELSE None

extract_u16(self) ==
    LET r == extract_raw_bytes(self)
    IN  IF r = None THEN None
        ELSE LET bytes == r[1]
             IN  IF Len(bytes) = 2
                 THEN Some(u16_from_be_bytes(bytes[1], bytes[2]))
                 ELSE None

extract_u32(self) ==
    LET r == extract_raw_bytes(self)
    IN  IF r = None THEN None
        ELSE LET bytes == r[1]
             IN  IF Len(bytes) = 4
                 THEN Some(<<u16_from_be_bytes(bytes[1], bytes[2]),
                             u16_from_be_bytes(bytes[3], bytes[4])>>)
                 ELSE None

extract_u64(self) ==
    LET r == extract_raw_bytes(self)
    IN  IF r = None THEN None
        ELSE LET bytes == r[1]
             IN  IF Len(bytes) = 8
                 THEN Some(<<u16_from_be_bytes(bytes[1], bytes[2]),
                             u16_from_be_bytes(bytes[3], bytes[4]),
                             u16_from_be_bytes(bytes[5], bytes[6]),
                             u16_from_be_bytes(bytes[7], bytes[8])>>)
                 ELSE None

\* String::from_utf8: strict UTF-8 decoding (no overlong forms, no
\* surrogates, nothing above U+10FFFF), None on the first invalid sequence
IsCont(b) == b >= 128 /\ b <= 191

RECURSIVE from_utf8(_)
from_utf8(b) ==
    LET n == Len(b)
        rest(k) == from_utf8(SubSeq(b, k + 1, n))
        cons(c, r) == IF r = None THEN None ELSE Some(<<c>> \o r[1])
    IN  IF n = 0 THEN Some(<<>>)
        ELSE IF b[1] < 128 THEN cons(b[1], rest(1))
        ELSE IF /\ b[1] >= 194 /\ b[1] <= 223
                /\ n >= 2 /\ IsCont(b[2])
             THEN cons(((b[1] - 192) * 64) + (b[2] - 128), rest(2))
        ELSE IF /\ b[1] >= 224 /\ b[1] <= 239
                /\ n >= 3 /\ IsCont(b[2]) /\ IsCont(b[3])
                /\ (b[1] = 224 => b[2] >= 160)
                /\ (b[1] = 237 => b[2] <= 159)
             THEN cons((b[1] - 224) * 4096 + (b[2] - 128) * 64 + (b[3] - 128), rest(3))
        ELSE IF /\ b[1] >= 240 /\ b[1] <= 244
                /\ n >= 4 /\ IsCont(b[2]) /\ IsCont(b[3]) /\ IsCont(b[4])
                /\ (b[1] = 240 => b[2] >= 144)
                /\ (b[1] = 244 => b[2] <= 143)
             THEN cons((b[1] - 240) * 262144 + (b[2] - 128) * 4096
                       + (b[3] - 128) * 64 + (b[4] - 128), rest(4))
        ELSE None

\* leaves the terminator in the decoded string
extract_string_keep_nul(self) ==
    IF self.value # None /\ self.value[1].variant = "Other"
    THEN from_utf8(self.value[1].value)
    ELSE None

extract_string(self) ==
    LET r == extract_raw_bytes(self)
    IN  IF r = None THEN None
        ELSE LET raw == r[1]
                 bytes == IF raw # <<>> /\ raw[Len(raw)] = 0
                          THEN SubSeq(raw, 1, Len(raw) - 1)
                          ELSE raw
             IN  from_utf8(bytes)

(***************************************************************************)
(* TlvContainer.  A PDU is [tlvs, short_message]; a PDU kind generated by  *)
(* the basic variant of the macro has no short_message field, which is     *)
(* modelled as a field that stays empty.                                   *)
(***************************************************************************)
\* SubmitSm / DeliverSm hook called by the short-message-clearing variant
clear_short_message_if_message_payload_exists(pdu) ==
    IF \E i \in 1..Len(pdu.tlvs) : pdu.tlvs[i].tag = TlvTag_MessagePayload
    THEN [pdu EXCEPT !.short_message = <<>>]
    ELSE pdu

\* the variant without the hook, used for a PDU kind that needs it
push_tlv_raw_without_hook(pdu, r) == [pdu EXCEPT !.tlvs = Append(@, r)]

push_tlv_raw_with_short_message_clear(pdu, r) ==
    clear_short_message_if_message_payload_exists([pdu EXCEPT !.tlvs = Append(@, r)])

\* Vec::insert(0, tlv) instead of Vec::push(tlv)
push_tlv_raw_front(pdu, r) == [pdu EXCEPT !.tlvs = <<r>> \o @]

push_tlv_raw_basic(pdu, r) == [pdu EXCEPT !.tlvs = Append(@, r)]

\* iter().position(|tlv| tlv.tag() == tag): lowest matching index, 0 if none
position(s, t) ==
    IF \E i \in 1..Len(s) : s[i].tag = t
    THEN CHOOSE i \in 1..Len(s) :
            /\ s[i].tag = t
            /\ \A j \in 1..(i - 1) : s[j].tag # t
    ELSE 0

get_tlv(pdu, t) ==
    LET pos == position(pdu.tlvs, t)
    IN  IF pos # 0 THEN Some(pdu.tlvs[pos]) ELSE None

get_tlvs(pdu) == pdu.tlvs

get_tlvs_mut(pdu) == pdu.tlvs

\* Vec::remove(pos): the elements after pos shift down by one
Vec_remove(s, pos) == SubSeq(s, 1, pos - 1) \o SubSeq(s, pos + 1, Len(s))

\* Vec::insert(pos, r), positions counted from 1
Vec_insert(s, pos, r) == SubSeq(s, 1, pos - 1) \o <<r>> \o SubSeq(s, pos, Len(s))

\* Vec::swap_remove(pos): the last element takes the place of the removed one
remove_tlv_swap(pdu, t) ==
    LET pos == position(pdu.tlvs, t)
        n == Len(pdu.tlvs)
    IN  IF pos # 0
        THEN [pdu |-> [pdu EXCEPT !.tlvs =
                            [k \in 1..(n - 1) |-> IF k = pos THEN @[n] ELSE @[k]]],
              ret |-> Some(pdu.tlvs[pos])]
        ELSE [pdu |-> pdu, ret |-> None]

\* returns the match without taking it out of the sequence
remove_tlv_peek(pdu, t) ==
    LET pos == position(pdu.tlvs, t)
    IN  IF pos # 0
        THEN [pdu |-> pdu, ret |-> Some(pdu.tlvs[pos])]
        ELSE [pdu |-> pdu, ret |-> None]

remove_tlv(pdu, t) ==
    LET pos == position(pdu.tlvs, t)
    IN  IF pos # 0
        THEN [pdu |-> [pdu EXCEPT !.tlvs = Vec_remove(@, pos)],
              ret |-> Some(pdu.tlvs[pos])]
        ELSE [pdu |-> pdu, ret |-> None]

has_tlv(pdu, t) == get_tlv(pdu, t) # None

\* also resets the message body
clear_tlvs_and_short_message(pdu) == [tlvs |-> <<>>, short_message |-> <<>>]

clear_tlvs(pdu) == [pdu EXCEPT !.tlvs = SubSeq(get_tlvs_mut(pdu), 1, 0)]

(***************************************************************************)
(* Records: construction and extraction as steps.  tlv is the record last  *)
(* constructed, made says which constructor built it from which argument,  *)
(* out is the result of the extraction helper last applied to it.          *)
(***************************************************************************)
TagSamples == {1060, 5120, 16383, 65535}

ByteSamples == {0, 65, 169, 195, 255}

U16Samples == {0, 1, 255, 256, 4660, 65535}

LimbSamples == {0, 1, 43981, 65535}

CharSamples == {0, 65, 233, 8364, 128512}

RawPayloads == SeqsUpTo(ByteSamples, MaxPayloadLen)

\* payloads of the widths extract_u32 / extract_u64 accept
WidePayloads == {<<0, 0, 1, 0>>, <<0, 0, 0, 0, 0, 0, 1, 0>>}

BigPayloads == {Zeros(n) : n \in {U16_MAX, U16_MAX + 1, U16_MAX + 2}}

Strings == SeqsUpTo(CharSamples, MaxStrLen)

NoCall == [fn |-> "none", arg |-> None, ret |-> None]

Built(ctor, t, arg) == [ctor |-> ctor, tag |-> t, arg |-> arg]

ContainerIdle ==
    /\ kind = "basic"
    /\ tlvs = <<>>
    /\ short_message = <<>>
    /\ log = <<>>

InitTlv ==
    /\ tlv = None
    /\ made = Built("none", None, None)
    /\ out = NoCall
    /\ ContainerIdle

\* One behaviour follows one record: it is built once, then only read
New(Payloads) ==
    /\ tlv = None
    /\ \E bytes \in Payloads :
        /\ tlv' = Some(new(TlvValue_MessagePayload(bytes)))
        /\ made' = Built("new", None, None)
    /\ UNCHANGED <<out, kind, tlvs, short_message, log>>

NewCustom(Payloads) ==
    /\ tlv = None
    /\ \E t \in TagSamples, bytes \in Payloads :
        /\ tlv' = Some(new_custom(t, bytes))
        /\ made' = Built("new_custom", Some(t), None)
    /\ UNCHANGED <<out, kind, tlvs, short_message, log>>

NewCustomU16 ==
    /\ tlv = None
    /\ \E t \in TagSamples, x \in U16Samples :
        /\ tlv' = Some(new_custom_u16(t, x))
        /\ made' = Built("new_custom_u16", Some(t), Some(x))
    /\ UNCHANGED <<out, kind, tlvs, short_message, log>>

NewCustomU32 ==
    /\ tlv = None
    /\ \E t \in TagSamples, hi \in LimbSamples, lo \in LimbSamples :
        /\ tlv' = Some(new_custom_u32(t, <<hi, lo>>))
        /\ made' = Built("new_custom_u32", Some(t), Some(<<hi, lo>>))
    /\ UNCHANGED <<out, kind, tlvs, short_message, log>>

NewCustomU64 ==
    /\ tlv = None
    /\ \E t \in TagSamples, a \in LimbSamples, b \in LimbSamples,
          c \in LimbSamples, d \in LimbSamples :
        /\ tlv' = Some(new_custom_u64(t, <<a, b, c, d>>))
        /\ made' = Built("new_custom_u64", Some(t), Some(<<a, b, c, d>>))
    /\ UNCHANGED <<out, kind, tlvs, short_message, log>>

NewCustomString ==
    /\ tlv = None
    /\ \E t \in TagSamples, s \in Strings :
        /\ tlv' = Some(new_custom_string(t, s))
        /\ made' = Built("new_custom_string", Some(t), Some(s))
    /\ UNCHANGED <<out, kind, tlvs, short_message, log>>

Returned(fn, arg, ret) == [fn |-> fn, arg |-> arg, ret |-> ret]

ExtractRawBytes ==
    /\ tlv # None
    /\ out' = Returned("extract_raw_bytes", None, extract_raw_bytes(tlv[1]))
    /\ UNCHANGED <<tlv, made, kind, tlvs, short_message, log>>

ExtractU16 ==
    /\ tlv # None
    /\ out' = Returned("extract_u16", None, extract_u16(tlv[1]))
    /\ UNCHANGED <<tlv, made, kind, tlvs, short_message, log>>

ExtractU32 ==
    /\ tlv # None
    /\ out' = Returned("extract_u32", None, extract_u32(tlv[1]))
    /\ UNCHANGED <<tlv, made, kind, tlvs, short_message, log>>

ExtractU64 ==
    /\ tlv # None
    /\ out' = Returned("extract_u64", None, extract_u64(tlv[1]))
    /\ UNCHANGED <<tlv, made, kind, tlvs, short_message, log>>

ExtractString ==
    /\ tlv # None
    /\ out' = Returned("extract_string", None, extract_string(tlv[1]))
    /\ UNCHANGED <<tlv, made, kind, tlvs, short_message, log>>

NextTlv ==
    \/ New(RawPayloads \cup WidePayloads)
    \/ NewCustom(RawPayloads \cup WidePayloads)
    \/ NewCustomU16
    \/ NewCustomU32
    \/ NewCustomU64
    \/ NewCustomString
    \/ ExtractRawBytes
    \/ ExtractU16
    \/ ExtractU32
    \/ ExtractU64
    \/ ExtractString

SpecTlv == InitTlv /\ [][NextTlv]_vars

\* The constructors alone, fed payloads on both sides of the u16 range
NextLen ==
    \/ NewCustom(RawPayloads \cup BigPayloads)
    \/ New(RawPayloads \cup BigPayloads)
    \/ NewCustomU16
    \/ NewCustomU32
    \/ NewCustomU64
    \/ NewCustomString

SpecLen == InitTlv /\ [][NextLen]_vars

TypeOkTlv == tlv = None \/ tlv[1].value_length \in 0..U16_MAX

(***************************************************************************)
(* Properties of records                                                   *)
(***************************************************************************)
Payload(r) == r.value[1].value

\* p is the fixed-width big-endian encoding of the number whose 16-bit
\* limbs, most significant first, are limbs
BigEndianOf(p, limbs) ==
    /\ Len(p) = 2 * Len(limbs)
    /\ \A i \in 1..Len(p) : p[i] \in 0..255
    /\ \A k \in 1..Len(limbs) : (p[2 * k - 1] * 256) + p[2 * k] = limbs[k]

\* C1: every record built by a constructor stores as value_length the exact
\* encoded byte length of its value.
C1_DeclaredLengthExact ==
    tlv # None => tlv[1].value_length = Len(Payload(tlv[1]))

\* C6: extract_uW(new_custom_uW(t, x)) = Some(x) for W in {16, 32, 64} and
\* every tag t, and the payload is the big-endian fixed-width encoding of x.
C6_ScalarRoundTrip ==
    /\ made.ctor = "new_custom_u16" =>
        /\ BigEndianOf(Payload(tlv[1]), made.arg)
        /\ out.fn = "extract_u16" => out.ret = made.arg
    /\ made.ctor = "new_custom_u32" =>
        /\ BigEndianOf(Payload(tlv[1]), made.arg[1])
        /\ out.fn = "extract_u32" => out.ret = made.arg
    /\ made.ctor = "new_custom_u64" =>
        /\ BigEndianOf(Payload(tlv[1]), made.arg[1])
        /\ out.fn = "extract_u64" => out.ret = made.arg

C6_Witness ==
    /\ made.ctor = "new_custom_u64"
    /\ made.tag = Some(65535)
    /\ made.arg = Some(<<1, 43981, 0, 65535>>)
    /\ out.fn = "extract_u64" /\ out.arg = None /\ out.ret = Some(<<1, 43981, 0, 65535>>)
    /\ Payload(tlv[1]) = <<0, 1, 171, 205, 0, 0, 255, 255>>

NoZeroByte(s) == \A i \in 1..Len(s) : s[i] # 0

\* C7: for a string s without a zero byte, new_custom_string stores the
\* bytes of s followed by exactly one zero byte, and extract_string removes
\* exactly that byte and returns s.
C7_StringRoundTrip ==
    (made.ctor = "new_custom_string" /\ NoZeroByte(made.arg[1])) =>
        LET s == made.arg[1]
            p == Payload(tlv[1])
        IN  /\ Len(p) >= 1
            /\ p[Len(p)] = 0
            /\ NoZeroByte(SubSeq(p, 1, Len(p) - 1))
            /\ from_utf8(SubSeq(p, 1, Len(p) - 1)) = Some(s)
            /\ out.fn = "extract_string" => out.ret = Some(s)

C7_Witness ==
    /\ made.ctor = "new_custom_string"
    /\ made.tag = Some(5120)
    /\ made.arg = Some(<<233, 8364>>)
    /\ Payload(tlv[1]) = <<195, 169, 226, 130, 172, 0>>
    /\ out.fn = "extract_string" /\ out.arg = None /\ out.ret = Some(<<233, 8364>>)

IsRaw(r) == r.value # None /\ r.value[1].variant = "Other"

\* C8: extract_u16 / u32 / u64 return a value exactly when the record is
\* the raw-bytes variant with a payload of exactly 2 / 4 / 8 bytes, and
\* nothing otherwise.
C8_NoPartialDecode ==
    /\ out.fn = "extract_u16" =>
        (out.ret # None <=> (IsRaw(tlv[1]) /\ Len(Payload(tlv[1])) = 2))
    /\ out.fn = "extract_u32" =>
        (out.ret # None <=> (IsRaw(tlv[1]) /\ Len(Payload(tlv[1])) = 4))
    /\ out.fn = "extract_u64" =>
        (out.ret # None <=> (IsRaw(tlv[1]) /\ Len(Payload(tlv[1])) = 8))
    /\ out.fn \in {"extract_u16", "extract_u32", "extract_u64"} => Len(out.ret) <= 1

C8_Witness ==
    /\ made.ctor = "new_custom"
    /\ Len(Payload(tlv[1])) = 3
    /\ out.fn = "extract_u16" /\ out.arg = None /\ out.ret = None

(***************************************************************************)
(* Containers: one PDU, built empty, on which the capability's operations  *)
(* are called.  log holds one entry per mutating call: the call, what it   *)
(* returned and the PDU it was made on.  out holds the read made last on   *)
(* the current PDU.                                                        *)
(***************************************************************************)
Kinds == {"with_short_message_clear", "basic"}

ShortMessages == {<<>>, <<72, 105>>}

RecMP == new(TlvValue_MessagePayload(<<65>>))

RecA1 == new_custom(5120, <<1>>)

RecA2 == new_custom(5120, <<2>>)

Records == {RecMP, RecA1, RecA2}

Tags == {TlvTag_MessagePayload, TlvTag_Other(5120)}

self == [tlvs |-> tlvs, short_message |-> short_message]

RecordIdle ==
    /\ tlv = None
    /\ made = Built("none", None, None)

Init ==
    /\ RecordIdle
    /\ out = NoCall
    /\ kind \in Kinds
    /\ tlvs = <<>>
    /\ short_message \in (IF kind = "basic" THEN {<<>>} ELSE ShortMessages)
    /\ log = <<>>

Call(op, r, t, at, ret) ==
    [op |-> op, tlv |-> r, tag |-> t, at |-> at, ret |-> ret,
     tlvs |-> tlvs, short_message |-> short_message]

\* Two ways of following a PDU.  whole = TRUE: at most MaxOps mutating
\* calls, all of them kept in log.  whole = FALSE: any number of calls on a
\* sequence of at most MaxTlvs records, log keeping the last call only.
CanCall(whole) == whole => Len(log) < MaxOps

\* a &mut self call: the PDU it leaves, logged with what it returned
Mutated(pdu, call, whole) ==
    /\ whole \/ Len(pdu.tlvs) <= MaxTlvs
    /\ tlvs' = pdu.tlvs
    /\ short_message' = pdu.short_message
    /\ log' = IF whole THEN Append(log, call) ELSE <<call>>
    /\ out' = NoCall

PushTlvRaw(whole) ==
    /\ CanCall(whole)
    /\ \E r \in Records :
        Mutated(IF kind = "with_short_message_clear"
                THEN push_tlv_raw_with_short_message_clear(self, r)
                ELSE push_tlv_raw_basic(self, r),
                Call("push_tlv_raw", Some(r), None, 0, None), whole)
    /\ UNCHANGED <<tlv, made, kind>>

RemoveTlv(whole) ==
    /\ CanCall(whole)
    /\ \E t \in Tags :
        LET res == remove_tlv(self, t)
        IN  Mutated(res.pdu, Call("remove_tlv", None, Some(t), 0, res.ret), whole)
    /\ UNCHANGED <<tlv, made, kind>>

ClearTlvs(whole) ==
    /\ CanCall(whole)
    /\ Mutated(clear_tlvs(self), Call("clear_tlvs", None, None, 0, None), whole)
    /\ UNCHANGED <<tlv, made, kind>>

\* a caller inserting a record through the Vec that get_tlvs_mut hands out
GetTlvsMutInsert(whole) ==
    /\ CanCall(whole)
    /\ \E r \in Records, at \in 1..(Len(tlvs) + 1) :
        Mutated([self EXCEPT !.tlvs = Vec_insert(get_tlvs_mut(self), at, r)],
                Call("get_tlvs_mut.insert", Some(r), None, at, None), whole)
    /\ UNCHANGED <<tlv, made, kind>>

GetTlv ==
    /\ \E t \in Tags : out' = Returned("get_tlv", Some(t), get_tlv(self, t))
    /\ UNCHANGED <<tlv, made, kind, tlvs, short_message, log>>

HasTlv ==
    /\ \E t \in Tags : out' = Returned("has_tlv", Some(t), Some(has_tlv(self, t)))
    /\ UNCHANGED <<tlv, made, kind, tlvs, short_message, log>>

GetTlvs ==
    /\ out' = Returned("get_tlvs", None, Some(get_tlvs(self)))
    /\ UNCHANGED <<tlv, made, kind, tlvs, short_message, log>>

Next ==
    \/ PushTlvRaw(TRUE)
    \/ RemoveTlv(TRUE)
    \/ ClearTlvs(TRUE)
    \/ GetTlvsMutInsert(TRUE)
    \/ GetTlv
    \/ HasTlv
    \/ GetTlvs

Spec == Init /\ [][Next]_vars

NextStep ==
    \/ PushTlvRaw(FALSE)
    \/ RemoveTlv(FALSE)
    \/ ClearTlvs(FALSE)
    \/ GetTlvsMutInsert(FALSE)
    \/ GetTlv
    \/ HasTlv
    \/ GetTlvs

SpecStep == Init /\ [][NextStep]_vars

TypeOk ==
    /\ Len(log) <= MaxOps
    /\ \A i \in 1..Len(tlvs) : tlvs[i] \in Records
    /\ kind = "basic" => short_message = <<>>

(***************************************************************************)
(* Properties of containers                                                *)
(***************************************************************************)
\* the PDU as the i-th logged call left it
PostTlvs(i) == IF i = Len(log) THEN tlvs ELSE log[i + 1].tlvs

PostShortMessage(i) == IF i = Len(log) THEN short_message ELSE log[i + 1].short_message

HoldsTag(s, t) == \E k \in 1..Len(s) : s[k].tag = t

IsPushOf(i, t) == log[i].op = "push_tlv_raw" /\ log[i].tlv[1].tag = t

IsRemoveOf(i, t) == log[i].op = "remove_tlv" /\ log[i].tag = Some(t)

\* C2: on a PDU kind with the short-message-clearing container, push_tlv_raw
\* of a message-payload record leaves short_message empty, whatever the PDU
\* held before, and the record is the last element of the sequence.
C2_PushMessagePayloadClears ==
    kind = "with_short_message_clear" =>
        \A i \in 1..Len(log) :
            IsPushOf(i, TlvTag_MessagePayload) =>
                /\ PostShortMessage(i) = <<>>
                /\ PostTlvs(i) # <<>>
                /\ PostTlvs(i)[Len(PostTlvs(i))] = log[i].tlv[1]

C2_Witness ==
    /\ kind = "with_short_message_clear"
    /\ Len(log) = 2
    /\ log[1].op = "get_tlvs_mut.insert"
    /\ IsPushOf(2, TlvTag_MessagePayload)
    /\ log[2].short_message = <<72, 105>>
    /\ log[2].tlvs = <<RecA1>>
    /\ short_message = <<>>
    /\ tlvs = <<RecA1, RecMP>>

\* C3: on a PDU kind with the short-message-clearing container, the
\* sequence never holds a message-payload record while short_message is
\* non-empty.
C3_MutuallyExclusive ==
    kind = "with_short_message_clear" =>
        ~ (HoldsTag(tlvs, TlvTag_MessagePayload) /\ short_message # <<>>)

\* C4 as stated: whatever the sequence held, after push_tlv_raw(r) with tag
\* T has_tlv(T) is true and get_tlv(T) returns r; after one remove_tlv(T)
\* has_tlv(T) is false and a second remove_tlv(T) returns nothing.
C4_FindRemoveAnyState ==
    \A t \in Tags : \A i \in 1..Len(log) :
        IsPushOf(i, t) =>
            /\ (i = Len(log) /\ out.fn = "has_tlv" /\ out.arg = Some(t))
                    => out.ret = Some(TRUE)
            /\ (i = Len(log) /\ out.fn = "get_tlv" /\ out.arg = Some(t))
                    => out.ret = log[i].tlv
            /\ (i + 1 = Len(log) /\ IsRemoveOf(i + 1, t)
                    /\ out.fn = "has_tlv" /\ out.arg = Some(t))
                    => out.ret = Some(FALSE)
            /\ (i + 2 <= Len(log) /\ IsRemoveOf(i + 1, t) /\ IsRemoveOf(i + 2, t))
                    => log[i + 2].ret = None

\* C4 amended: the same, for a sequence that held no record with tag T
\* before the push.
C4_FindRemoveFreshTag ==
    \A t \in Tags : \A i \in 1..Len(log) :
        (IsPushOf(i, t) /\ ~ HoldsTag(log[i].tlvs, t)) =>
            /\ (i = Len(log) /\ out.fn = "has_tlv" /\ out.arg = Some(t))
                    => out.ret = Some(TRUE)
            /\ (i = Len(log) /\ out.fn = "get_tlv" /\ out.arg = Some(t))
                    => out.ret = log[i].tlv
            /\ (i + 1 = Len(log) /\ IsRemoveOf(i + 1, t)
                    /\ out.fn = "has_tlv" /\ out.arg = Some(t))
                    => out.ret = Some(FALSE)
            /\ (i + 2 <= Len(log) /\ IsRemoveOf(i + 1, t) /\ IsRemoveOf(i + 2, t))
                    => log[i + 2].ret = None

C4_Witness ==
    LET t == TlvTag_Other(5120)
    IN  /\ Len(log) = 3
        /\ IsPushOf(1, t)
        /\ ~ HoldsTag(log[1].tlvs, t)
        /\ IsRemoveOf(2, t)
        /\ log[2].ret = log[1].tlv
        /\ IsRemoveOf(3, t)
        /\ log[3].ret = None
        /\ out.fn = "has_tlv" /\ out.arg = Some(t) /\ out.ret = Some(FALSE)

\* the records pushed by the calls i..j of the log, in call order
Pushed(i, j) == [k \in 1..(j - i + 1) |-> log[i + k - 1].tlv[1]]

\* C5: for both container variants, after a run of push_tlv_raw calls on a
\* PDU holding sequence S, get_tlvs() is S followed by the pushed records in
\* call order, none dropped, duplicated or reordered.
C5_InsertionOrder ==
    \A i \in 1..Len(log) : \A j \in i..Len(log) :
        (\A k \in i..j : log[k].op = "push_tlv_raw") =>
            /\ PostTlvs(j) = log[i].tlvs \o Pushed(i, j)
            /\ (j = Len(log) /\ out.fn = "get_tlvs")
                    => out.ret = Some(log[i].tlvs \o Pushed(i, j))

C5_Witness ==
    /\ kind = "with_short_message_clear"
    /\ Len(log) = 3
    /\ \A k \in 1..3 : log[k].op = "push_tlv_raw"
    /\ out.fn = "get_tlvs" /\ out.arg = None /\ out.ret = Some(<<RecA1, RecMP, RecA1>>)

\* C9: on a PDU kind with the short-message-clearing container, remove_tlv
\* and clear_tlvs leave short_message exactly as it was before the call.
C9_ShrinkKeepsShortMessage ==
    kind = "with_short_message_clear" =>
        \A i \in 1..Len(log) :
            log[i].op \in {"remove_tlv", "clear_tlvs"} =>
                PostShortMessage(i) = log[i].short_message

C9_Witness ==
    /\ kind = "with_short_message_clear"
    /\ Len(log) = 2
    /\ IsPushOf(1, TlvTag_MessagePayload)
    /\ log[1].short_message = <<72, 105>>
    /\ IsRemoveOf(2, TlvTag_MessagePayload)
    /\ log[2].ret = Some(RecMP)
    /\ log[2].short_message = <<>>
    /\ short_message = <<>>
    /\ tlvs = <<>>

\* the lowest index of s holding a record with tag t, 0 if there is none
FirstHit(s, t) ==
    LET hits == {k \in 1..Len(s) : s[k].tag = t}
    IN  IF hits = {} THEN 0 ELSE CHOOSE k \in hits : \A m \in hits : k <= m

\* C10: remove_tlv removes and returns exactly the lowest-index record with
\* the tag (the one get_tlv returns), the other records keeping their order;
\* with no such record it returns nothing and leaves the sequence unchanged.
C10_RemoveFirstMatch ==
    /\ \A i \in 1..Len(log) :
        log[i].op = "remove_tlv" =>
            LET pre == log[i].tlvs
                post == PostTlvs(i)
                p == FirstHit(pre, log[i].tag[1])
            IN  IF p = 0
                THEN log[i].ret = None /\ post = pre
                ELSE /\ log[i].ret = Some(pre[p])
                     /\ Len(post) = Len(pre) - 1
                     /\ \A k \in 1..Len(post) :
                            post[k] = IF k < p THEN pre[k] ELSE pre[k + 1]
    /\ out.fn = "get_tlv" =>
            LET p == FirstHit(tlvs, out.arg[1])
            IN  out.ret = IF p = 0 THEN None ELSE Some(tlvs[p])

C10_Witness ==
    /\ Len(log) = 1
    /\ IsRemoveOf(1, TlvTag_Other(5120))
    /\ log[1].tlvs = <<RecMP, RecA1, RecA2, RecMP>>
    /\ log[1].ret = Some(RecA1)
    /\ tlvs = <<RecMP, RecA2, RecMP>>

====
